---- MODULE Spec2Model ----
(***************************************************************************)
(* Order execution engine (amanydv72/Externa): the Submit route, the       *)
(* Store (OrderRepository), the queue worker's processOrder state machine, *)
(* the WSOL handler, the DEX router and the WebSocketManager hub.          *)
(*                                                                         *)
(* Prices are integers in units of the Store's NUMERIC(20,8) grain, and a  *)
(* slippage tolerance is an integer number of basis points, so that the    *)
(* gate |expected - executed| / expected <= slippage is evaluated exactly  *)
(* as |expected - executed| * 10000 <= slippageBps * expected.             *)
(***************************************************************************)
EXTENDS Integers, Sequences, FiniteSets, TLC

VARIABLES
  orders,           \* the Store: row id -> order row
  jobs,             \* the queue: sequence of jobs, in enqueue order
  responses,        \* replies of POST /api/orders/execute, in request order
  connections,      \* WebSocketManager.connections: orderId -> set of sinks
  connectionCount,  \* WebSocketManager.connectionCount
  sockets,          \* per sink: the WebSocket (readyState, pending events, when it subscribed)
  inbox,            \* per sink: what the client of an open socket has received
  delivered,        \* per sink: the messages the hub call of the last step handed to ws.send
  gateExpected,     \* per row id: quote.price the last recorded execution was gated against
  wsIn, wsOut, wsAmount, wsResult,  \* WSOL handler calls: inputs and last result
  rtRaydium, rtMeteora, rtResult,   \* router calls: the venues' quotes and last result
  cache,            \* the cache's order:<id> keys: the cached copy of an order
  updatedAt,        \* per cached id: updatedAt of the Store's row and of the cached copy
  updateLog,        \* the cache's order:<id>:updates lists: the status pushed last
  logList,          \* one order:<id>:updates list in full, newest entry first
  logResult,        \* the last result of getStatusUpdates on that list
  incCalls,         \* per caller of incrementRetry: where it is and what it read
  shutdownPc        \* gracefulShutdown: the await it has reached

vars == <<orders, jobs, responses, connections, connectionCount, sockets, inbox,
          delivered, gateExpected, wsIn, wsOut, wsAmount, wsResult,
          rtRaydium, rtMeteora, rtResult, cache, updatedAt, updateLog,
          logList, logResult, incCalls, shutdownPc>>

coreVars == <<orders, jobs, responses, connections, connectionCount, sockets, inbox,
              delivered, gateExpected, cache, updatedAt, updateLog>>

wsVars == <<wsIn, wsOut, wsAmount, wsResult>>

rtVars == <<rtRaydium, rtMeteora, rtResult>>

auxVars == <<logList, logResult, incCalls, shutdownPc>>

pureVars == <<wsVars, rtVars, auxVars>>

cacheVars == <<cache, updatedAt, updateLog>>

-----------------------------------------------------------------------------
(* Bounds of the model *)

MaxSubmits == 1

MaxSinks == 2

MaxAmount == 1

(* How often the worker holding a job may crash before acknowledging it *)
MaxStalls == 1

(* Program constants *)

maxRetryAttempts == 3

BpsScale == 10000

NATIVE_SOL_ADDRESS == "11111111111111111111111111111111"

WRAPPED_SOL_ADDRESS == "So11111111111111111111111111111111111111112"

USDC_ADDRESS == "EPjFWdd5AufqSSqeM2qN1xzybapC8G4wEGGkZwyTDt1v"

SHORT_ADDRESS == "So1111"

Addresses == {NATIVE_SOL_ADDRESS, WRAPPED_SOL_ADDRESS, USDC_ADDRESS, SHORT_ADDRESS}

None == "none"

(* wsResult before any WSOL handler call *)
NoCall == [op |-> None, value |-> None]

(* No quote was fetched *)
NoQuote == [provider |-> None, amountOut |-> 0, fee |-> 0, priceImpact |-> 0]

(* The callers of incrementRetry that may run at the same time *)
MaxCallers == 2

Callers == 1..MaxCallers

(* No incrementRetry call is under way *)
NoIncCalls == [c \in Callers |-> [pc |-> "idle", read |-> 0, done |-> 0]]

(* No ws.send call: what a step that is not a hub call leaves in delivered *)
NoDelivery == [s \in 1..MaxSinks |-> << >>]

-----------------------------------------------------------------------------
(* utils/wsolHandler.ts *)

isNativeSol(tokenAddress) == tokenAddress = NATIVE_SOL_ADDRESS

normalizeTokenAddress(tokenAddress) ==
  IF isNativeSol(tokenAddress) THEN WRAPPED_SOL_ADDRESS ELSE tokenAddress

normalizeTokenPair(tokenIn, tokenOut) ==
  [tokenIn |-> normalizeTokenAddress(tokenIn),
   tokenOut |-> normalizeTokenAddress(tokenOut)]

getWrapInstructions(originalTokenIn, originalTokenOut, amountIn) ==
  [needsWrapIn |-> isNativeSol(originalTokenIn),
   needsUnwrapOut |-> isNativeSol(originalTokenOut),
   wrapAmount |-> IF isNativeSol(originalTokenIn) THEN amountIn ELSE 0,
   originalTokenIn |-> originalTokenIn,
   originalTokenOut |-> originalTokenOut,
   normalizedTokenIn |-> normalizeTokenAddress(originalTokenIn),
   normalizedTokenOut |-> normalizeTokenAddress(originalTokenOut)]

SameTokenError == "Input and output tokens cannot be the same"

SolWsolError == "Cannot swap between SOL and WSOL (they represent the same asset)"

validateTokenAddressesNoWsol(tokenIn, tokenOut) ==
  LET errors == IF tokenIn = tokenOut THEN <<SameTokenError>> ELSE << >>
  IN [isValid |-> Len(errors) = 0, errors |-> errors]

validateTokenAddresses(tokenIn, tokenOut) ==
  LET e1 == IF tokenIn = tokenOut THEN <<SameTokenError>> ELSE << >>
      normalizedIn == normalizeTokenAddress(tokenIn)
      normalizedOut == normalizeTokenAddress(tokenOut)
      e2 == IF normalizedIn = normalizedOut /\ normalizedIn = WRAPPED_SOL_ADDRESS
            THEN <<SolWsolError>> ELSE << >>
      errors == e1 \o e2
  IN [isValid |-> Len(errors) = 0, errors |-> errors]

-----------------------------------------------------------------------------
(* Identities.  An id is the text prefix \o uuid; uuids are numbered in the *)
(* order they are drawn (uuidv4() in the route, defaultRandom() in the      *)
(* Store), so two draws never collide.                                      *)

ApiOrderId(u) == [prefix |-> "order_", uuid |-> u]

RowId(u) == [prefix |-> "", uuid |-> u]

(* the id of a reply or socket that carries no order *)
NoId == [prefix |-> None, uuid |-> 0]

(* a check that every id passes *)
isValidUUIDAny(str) == TRUE

isValidUUID(str) == str.prefix = ""

-----------------------------------------------------------------------------
(* models/enums.ts *)

PENDING == "pending"

ROUTING == "routing"

BUILDING == "building"

SUBMITTED == "submitted"

CONFIRMED == "confirmed"

FAILED == "failed"

RAYDIUM == "raydium"

METEORA == "meteora"

-----------------------------------------------------------------------------
(* database/schema.ts, database/repository.ts *)

NewOrderRecord(req) ==
  [status |-> PENDING, tokenIn |-> req.tokenIn, tokenOut |-> req.tokenOut,
   amountIn |-> req.amountIn, slippage |-> req.slippage,
   amountOut |-> 0, executedPrice |-> 0, dexProvider |-> None, txHash |-> 0,
   errorMessage |-> None, retryCount |-> 0, completed |-> FALSE]

createOrder(os, id, row) == (id :> row) @@ os

updateStatusKeepsStatus(os, orderId, status) == os

updateStatus(os, orderId, status) ==
  IF orderId \in DOMAIN os
  THEN [os EXCEPT ![orderId].status = status]
  ELSE os

updateExecution(os, orderId, executionData) ==
  IF orderId \in DOMAIN os
  THEN [os EXCEPT ![orderId].executedPrice = executionData.executedPrice,
                  ![orderId].amountOut = executionData.amountOut,
                  ![orderId].dexProvider = executionData.dexProvider,
                  ![orderId].txHash = executionData.txHash,
                  ![orderId].status = CONFIRMED,
                  ![orderId].completed = TRUE]
  ELSE os

markFailed(os, orderId, errorMessage, retryCount) ==
  IF orderId \in DOMAIN os
  THEN [os EXCEPT ![orderId].status = FAILED,
                  ![orderId].errorMessage = errorMessage,
                  ![orderId].retryCount = retryCount,
                  ![orderId].completed = TRUE]
  ELSE os

incrementRetry(os, orderId) ==
  IF orderId \in DOMAIN os
  THEN [os EXCEPT ![orderId].retryCount = os[orderId].retryCount + 1]
  ELSE os

(* incrementRetry's two awaits apart: findById returns the row's           *)
(* retryCount, and the UPDATE writes that value plus one                   *)
incrementRetryRead(os, orderId) == os[orderId].retryCount

incrementRetryWrite(os, orderId, read) ==
  IF orderId \in DOMAIN os
  THEN [os EXCEPT ![orderId].retryCount = read + 1]
  ELSE os

-----------------------------------------------------------------------------
(* services/order/OrderService.ts: validateOrder *)

MinAddressLen == 32

MaxAddressLen == 44

DefaultSlippageBps == 100

MinSlippageBps == 1

MaxSlippageBps == 5000

validateOrder(orderData) ==
  LET e1 == IF Len(orderData.tokenIn) < MinAddressLen \/ Len(orderData.tokenIn) > MaxAddressLen
            THEN <<"Invalid tokenIn address">> ELSE << >>
      e2 == IF Len(orderData.tokenOut) < MinAddressLen \/ Len(orderData.tokenOut) > MaxAddressLen
            THEN <<"Invalid tokenOut address">> ELSE << >>
      e3 == IF orderData.amountIn <= 0
            THEN <<"amountIn must be greater than 0">> ELSE << >>
      e4 == IF orderData.slippage < MinSlippageBps \/ orderData.slippage > MaxSlippageBps
            THEN <<"Slippage must be between 0.01% and 50%">> ELSE << >>
      errors == e1 \o e2 \o e3 \o e4
  IN [isValid |-> Len(errors) = 0, errors |-> errors]

Request(tokenIn, tokenOut, amountIn) ==
  [tokenIn |-> tokenIn, tokenOut |-> tokenOut, amountIn |-> amountIn,
   slippage |-> DefaultSlippageBps]

(* The request bodies the model submits: a plain swap, native SOL against  *)
(* wrapped SOL, a token against itself, a short address, a zero amount.    *)
Requests ==
  {Request(NATIVE_SOL_ADDRESS, USDC_ADDRESS, a) : a \in 0..MaxAmount}
    \cup {Request(NATIVE_SOL_ADDRESS, WRAPPED_SOL_ADDRESS, MaxAmount),
          Request(USDC_ADDRESS, USDC_ADDRESS, MaxAmount),
          Request(SHORT_ADDRESS, USDC_ADDRESS, MaxAmount)}

-----------------------------------------------------------------------------
(* services/cache/CacheService.ts.  A cached copy keeps the order's status. *)
(* updatedAt keeps, for a cached id, the updatedAt of the Store's row and   *)
(* of the cached copy as ranks, 1 for the later of the two and 0 otherwise: *)
(* only their order is observed.                                            *)

(* new Date() written to the Store's row or to the cached copy by a call   *)
(* that runs after every earlier write                                     *)
Stamped(at, orderId, column) ==
  IF orderId \in DOMAIN at
  THEN [at EXCEPT ![orderId] = [store |-> IF column = "store" THEN 1 ELSE 0,
                                cache |-> IF column = "cache" THEN 1 ELSE 0]]
  ELSE at

cacheOrder(c, orderId, order) == (orderId :> [status |-> order.status]) @@ c

(* the cached copy is the order as the Store returned it: the row's updatedAt *)
cacheOrderUpdatedAt(at, orderId) == (orderId :> [store |-> 0, cache |-> 0]) @@ at

updateCachedOrderStatus(c, orderId, status) ==
  IF orderId \in DOMAIN c THEN [c EXCEPT ![orderId].status = status] ELSE c

(* lpush on the order's update list; of the list the model keeps its head, *)
(* the entry pushed last                                                   *)
cacheStatusUpdate(log, orderId, status) ==
  [id \in DOMAIN log \cup {orderId} |-> IF id = orderId THEN status ELSE log[id]]

(* The Redis list of one order's updates.  lpush puts the entry at the     *)
(* head; cacheStatusUpdate calls lpush and expire and nothing else.  An    *)
(* update is kept as the rank of its timestamp.                            *)
lpush(list, update) == <<update>> \o list

(* lrange(key, 0, -1): the whole list from its head *)
lrange(list) == list

reverse(list) == [k \in 1..Len(list) |-> list[Len(list) + 1 - k]]

(* getStatusUpdates: lrange, JSON.parse of each entry, reverse *)
getStatusUpdates(list) == reverse(lrange(list))

-----------------------------------------------------------------------------
(* queue: addOrderToQueue and the retry policy of the order-execution queue *)

NewJob(orderId, orderData) ==
  [orderId |-> orderId, data |-> orderData, attemptsMade |-> 0,
   state |-> "waiting", pc |-> None, quote |-> None, result |-> None,
   error |-> None, cause |-> None, returnvalue |-> None, holders |-> 0,
   stalledCounter |-> 0, crashedIn |-> None]

addOrderToQueue(q, orderId, orderData) == Append(q, NewJob(orderId, orderData))

(* Dequeue is an atomic lease: only a job no worker holds is handed out. *)
CanLeaseHeld(j) == j.state \in {"waiting", "active"}

CanLease(j) == j.state = "waiting"

(* Requeue after a failed attempt k (0-indexed) iff k + 1 < maxAttempts. *)
QueueRetries(k) == k + 1 < maxRetryAttempts

-----------------------------------------------------------------------------
(* api/routes/orders.ts: POST /api/orders/execute *)

Reply(code, orderId, rowId, req) ==
  [code |-> code, orderId |-> orderId, rowId |-> rowId, request |-> req]

Submit(req) ==
  /\ Len(responses) < MaxSubmits
  /\ LET n == Len(responses) + 1
         orderId == ApiOrderId(2 * n - 1)
         rowId == RowId(2 * n)
         data == [tokenIn |-> req.tokenIn, tokenOut |-> req.tokenOut,
                  amountIn |-> req.amountIn, slippage |-> req.slippage]
     IN IF ~validateOrder(req).isValid
        THEN /\ responses' = Append(responses, Reply(400, NoId, NoId, req))
             /\ UNCHANGED <<orders, jobs, gateExpected>>
        ELSE \/ \* orderService.createOrder throws: 500, nothing written
                /\ responses' = Append(responses, Reply(500, NoId, NoId, req))
                /\ UNCHANGED <<orders, jobs, gateExpected>>
             \/ \* addOrderToQueue throws after the row was inserted: 500
                /\ orders' = createOrder(orders, rowId, NewOrderRecord(req))
                /\ gateExpected' = (rowId :> 0) @@ gateExpected
                /\ responses' = Append(responses, Reply(500, NoId, rowId, req))
                /\ UNCHANGED jobs
             \/ /\ orders' = createOrder(orders, rowId, NewOrderRecord(req))
                /\ gateExpected' = (rowId :> 0) @@ gateExpected
                /\ jobs' = addOrderToQueue(jobs, orderId, data)
                /\ responses' = Append(responses, Reply(200, orderId, rowId, req))
  /\ UNCHANGED <<connections, connectionCount, sockets, inbox>>
  /\ delivered' = NoDelivery
  /\ UNCHANGED <<pureVars, cacheVars>>

(* addOrderToQueue called with the id of a Store row (the unified identity *)
(* the worker's UUID check expects).  A behaviour has one such job.        *)
EnqueueStoreId(rowId) ==
  /\ rowId \in DOMAIN orders
  /\ \A i \in 1..Len(jobs) : ~isValidUUID(jobs[i].orderId)
  /\ jobs' = addOrderToQueue(jobs, rowId,
                [tokenIn |-> orders[rowId].tokenIn, tokenOut |-> orders[rowId].tokenOut,
                 amountIn |-> orders[rowId].amountIn, slippage |-> orders[rowId].slippage])
  /\ UNCHANGED <<orders, responses, connections, connectionCount, sockets, inbox, gateExpected>>
  /\ delivered' = NoDelivery
  /\ UNCHANGED <<pureVars, cacheVars>>

-----------------------------------------------------------------------------
(* websocket/WebSocketManager.ts.  A hub state is the pair of the registry *)
(* and the running total; a sink is the index of its WebSocket.            *)

Sinks == 1..MaxSinks

Hub(conns, count) == [connections |-> conns, connectionCount |-> count]

ConnectedMsg(orderId) == [type |-> "connected", orderId |-> orderId, status |-> None]

StatusMsg(orderId, status) == [type |-> "status_update", orderId |-> orderId, status |-> status]

(* What a client is sent when it subscribes before its order is processed  *)
(* and the order is confirmed on the first attempt.                         *)
FirstAttemptFrames == <<None, ROUTING, BUILDING, SUBMITTED, CONFIRMED>>

(* A client's record of what it received: the messages themselves as long  *)
(* as they follow FirstAttemptFrames for the order it subscribed to, and    *)
(* OffTrack from the first message that does not.                           *)
OffTrack == <<[type |-> "off", orderId |-> NoId, status |-> None]>>

Receive(received, orderId, message) ==
  IF /\ received # OffTrack
     /\ Len(received) < Len(FirstAttemptFrames)
     /\ message.orderId = orderId
     /\ message.status = FirstAttemptFrames[Len(received) + 1]
     /\ (message.type = "connected") = (Len(received) = 0)
  THEN Append(received, message)
  ELSE OffTrack

(* ws.send is called (the socket is OPEN) and returns instead of throwing *)
Sent(socks, s) == socks[s].readyState = "open" /\ ~socks[s].sendThrows

(* sendToClient: the message reaches the client only when the socket is OPEN *)
sendToClient(box, socks, s, message) ==
  IF Sent(socks, s)
  THEN [box EXCEPT ![s] = Receive(box[s], socks[s].orderId, message)]
  ELSE box

sendToClientDelivered(socks, s, message) ==
  [t \in Sinks |-> IF t = s /\ Sent(socks, s) THEN <<message>> ELSE << >>]

removeConnection(h, orderId, s) ==
  IF orderId \in DOMAIN h.connections
  THEN LET rest == h.connections[orderId] \ {s}
       IN Hub(IF rest = {}
              THEN [k \in DOMAIN h.connections \ {orderId} |-> h.connections[k]]
              ELSE [h.connections EXCEPT ![orderId] = rest],
              h.connectionCount - 1)
  ELSE h

registerConnectionKeepsCount(h, orderId, s) ==
  Hub(IF orderId \in DOMAIN h.connections
      THEN [h.connections EXCEPT ![orderId] = h.connections[orderId] \cup {s}]
      ELSE (orderId :> {s}) @@ h.connections,
      h.connectionCount)

registerConnection(h, orderId, s) ==
  Hub(IF orderId \in DOMAIN h.connections
      THEN [h.connections EXCEPT ![orderId] = h.connections[orderId] \cup {s}]
      ELSE (orderId :> {s}) @@ h.connections,
      h.connectionCount + 1)

(* forEach over the order's set: removeConnection for every sink not OPEN *)
RECURSIVE removeAll(_, _, _)
removeAll(h, orderId, dead) ==
  IF dead = {} THEN h
  ELSE LET s == CHOOSE x \in dead : \A y \in dead : x <= y
       IN removeAll(removeConnection(h, orderId, s), orderId, dead \ {s})

broadcastHub(h, socks, orderId) ==
  IF orderId \notin DOMAIN h.connections THEN h
  ELSE removeAll(h, orderId, {s \in h.connections[orderId] : socks[s].readyState # "open"})

broadcastInboxFirstOnly(h, socks, box, orderId, status) ==
  IF orderId \notin DOMAIN h.connections THEN box
  ELSE [s \in DOMAIN box |->
          IF /\ s \in h.connections[orderId] /\ Sent(socks, s)
             /\ \A t \in h.connections[orderId] : s <= t
          THEN Receive(box[s], socks[s].orderId, StatusMsg(orderId, status))
          ELSE box[s]]

(* forEach over the order's set: ws.send to every sink that is OPEN *)
broadcastInbox(h, socks, box, orderId, status) ==
  IF orderId \notin DOMAIN h.connections THEN box
  ELSE [s \in DOMAIN box |->
          IF s \in h.connections[orderId] /\ Sent(socks, s)
          THEN Receive(box[s], socks[s].orderId, StatusMsg(orderId, status))
          ELSE box[s]]

(* a broadcast whose loop ends at the first send that throws *)
broadcastDeliveredUntilThrow(h, socks, orderId, status) ==
  [s \in Sinks |->
     IF /\ orderId \in DOMAIN h.connections
        /\ s \in h.connections[orderId]
        /\ Sent(socks, s)
        /\ \A t \in h.connections[orderId] : t < s => ~socks[t].sendThrows
     THEN <<StatusMsg(orderId, status)>>
     ELSE << >>]

(* the ws.send calls of one broadcastStatusUpdate that returned *)
broadcastDelivered(h, socks, orderId, status) ==
  [s \in Sinks |->
     IF /\ orderId \in DOMAIN h.connections
        /\ s \in h.connections[orderId]
        /\ Sent(socks, s)
     THEN <<StatusMsg(orderId, status)>>
     ELSE << >>]

ClosingMsg(orderId) == [type |-> "closing", orderId |-> orderId, status |-> None]

(* The hub with the sockets it holds and what their clients were sent *)
HubState(h, socks, box, del) ==
  [hub |-> h, sockets |-> socks, inbox |-> box, delivered |-> del]

(* a closeOrderConnections whose loop runs over the sinks of every order *)
closeOrderConnectionsOfEveryOrder(st, orderId) ==
  IF orderId \notin DOMAIN st.hub.connections THEN st
  ELSE LET closed == {s \in UNION {st.hub.connections[k] : k \in DOMAIN st.hub.connections} :
                        Sent(st.sockets, s)}
       IN HubState(
            Hub([k \in DOMAIN st.hub.connections \ {orderId} |-> st.hub.connections[k]],
                st.hub.connectionCount),
            [s \in Sinks |->
               IF s \in closed
               THEN [st.sockets[s] EXCEPT !.readyState = "closed", !.closeEvent = TRUE,
                                          !.beforeProcessing = FALSE]
               ELSE st.sockets[s]],
            [s \in Sinks |-> IF s \in closed THEN << >> ELSE st.inbox[s]],
            [s \in Sinks |->
               IF s \in closed
               THEN Append(st.delivered[s], ClosingMsg(orderId))
               ELSE st.delivered[s]])

(* closeOrderConnections: per sink, sendToClient then ws.close() in one    *)
(* try block, so a send that throws skips the close; then the order's key  *)
(* is deleted.  ws.close() leaves the socket not OPEN and its 'close'      *)
(* event is emitted later.  connectionCount is not touched.                *)
closeOrderConnections(st, orderId) ==
  IF orderId \notin DOMAIN st.hub.connections THEN st
  ELSE LET closed == {s \in st.hub.connections[orderId] : Sent(st.sockets, s)}
       IN HubState(
            Hub([k \in DOMAIN st.hub.connections \ {orderId} |-> st.hub.connections[k]],
                st.hub.connectionCount),
            [s \in Sinks |->
               IF s \in closed
               THEN [st.sockets[s] EXCEPT !.readyState = "closed", !.closeEvent = TRUE,
                                          !.beforeProcessing = FALSE]
               ELSE st.sockets[s]],
            [s \in Sinks |-> IF s \in closed THEN << >> ELSE st.inbox[s]],
            [s \in Sinks |->
               IF s \in closed
               THEN Append(st.delivered[s], ClosingMsg(orderId))
               ELSE st.delivered[s]])

(* closeAll: closeOrderConnections for every key of the registry *)
RECURSIVE closeAllFrom(_, _)
closeAllFrom(st, orderIds) ==
  IF orderIds = {} THEN st
  ELSE LET orderId == CHOOSE k \in orderIds : TRUE
       IN closeAllFrom(closeOrderConnections(st, orderId), orderIds \ {orderId})

closeAll(st) == closeAllFrom(st, DOMAIN st.hub.connections)

TheHub == Hub(connections, connectionCount)

(* Order ids a client can know: those Submit returned and the Store's ids. *)
KnownIds ==
  {responses[i].orderId : i \in {j \in 1..Len(responses) : responses[j].code = 200}}
    \cup DOMAIN orders

(* No job of the order has been leased yet: processing has not begun. *)
NotYetLeased(orderId) ==
  \A i \in 1..Len(jobs) :
    jobs[i].orderId = orderId => jobs[i].state = "waiting" /\ jobs[i].attemptsMade = 0

(* GET /ws/orders/:orderId upgrades and the hub registers the socket *)
RegisterConnection(s, orderId) ==
  /\ sockets[s].readyState = "new"
  /\ \A t \in Sinks : t < s => sockets[t].readyState # "new"
  /\ orderId \in KnownIds
  /\ LET socks == [sockets EXCEPT ![s] = [orderId |-> orderId, readyState |-> "open",
                                          closeEvent |-> FALSE,
                                          beforeProcessing |-> NotYetLeased(orderId),
                                          sendThrows |-> FALSE]]
         h == registerConnection(TheHub, orderId, s)
     IN /\ sockets' = socks
        /\ connections' = h.connections
        /\ connectionCount' = h.connectionCount
        /\ inbox' = sendToClient(inbox, socks, s, ConnectedMsg(orderId))
        /\ delivered' = sendToClientDelivered(socks, s, ConnectedMsg(orderId))
  /\ UNCHANGED <<orders, jobs, responses, gateExpected>>
  /\ UNCHANGED <<pureVars, cacheVars>>

(* The client (or the network) closes the socket; its 'close' event is queued. *)
SocketCloses(s) ==
  /\ sockets[s].readyState = "open"
  /\ sockets' = [sockets EXCEPT ![s].readyState = "closed", ![s].closeEvent = TRUE,
                                ![s].beforeProcessing = FALSE]
  /\ inbox' = [inbox EXCEPT ![s] = << >>]
  /\ delivered' = NoDelivery
  /\ UNCHANGED <<orders, jobs, responses, connections, connectionCount, gateExpected>>
  /\ UNCHANGED <<pureVars, cacheVars>>

(* ws.on('error'): removeConnection; the socket then closes and emits 'close'. *)
OnError(s) ==
  /\ sockets[s].readyState = "open"
  /\ LET h == removeConnection(TheHub, sockets[s].orderId, s)
     IN /\ connections' = h.connections
        /\ connectionCount' = h.connectionCount
  /\ sockets' = [sockets EXCEPT ![s].readyState = "closed", ![s].closeEvent = TRUE,
                                ![s].beforeProcessing = FALSE]
  /\ inbox' = [inbox EXCEPT ![s] = << >>]
  /\ delivered' = NoDelivery
  /\ UNCHANGED <<orders, jobs, responses, gateExpected>>
  /\ UNCHANGED <<pureVars, cacheVars>>

(* ws.on('close'): removeConnection *)
OnClose(s) ==
  /\ sockets[s].closeEvent
  /\ LET h == removeConnection(TheHub, sockets[s].orderId, s)
     IN /\ connections' = h.connections
        /\ connectionCount' = h.connectionCount
  /\ sockets' = [sockets EXCEPT ![s].closeEvent = FALSE]
  /\ UNCHANGED <<orders, jobs, responses, inbox, gateExpected>>
  /\ delivered' = NoDelivery
  /\ UNCHANGED <<pureVars, cacheVars>>

(* ws.send of the socket starts throwing while the socket stays OPEN *)
SocketBreaks(s) ==
  /\ sockets[s].readyState = "open"
  /\ ~sockets[s].sendThrows
  /\ sockets' = [sockets EXCEPT ![s].sendThrows = TRUE]
  /\ delivered' = NoDelivery
  /\ UNCHANGED <<orders, jobs, responses, connections, connectionCount, inbox, gateExpected>>
  /\ UNCHANGED <<pureVars, cacheVars>>

(* Statuses a caller of the hub broadcasts *)
BroadcastStatuses == {ROUTING, CONFIRMED}

(* wsManager.broadcastStatusUpdate called for any known order *)
BroadcastStatusUpdate(orderId, status) ==
  /\ orderId \in KnownIds
  /\ LET h == broadcastHub(TheHub, sockets, orderId)
     IN /\ inbox' = broadcastInbox(TheHub, sockets, inbox, orderId, status)
        /\ delivered' = broadcastDelivered(TheHub, sockets, orderId, status)
        /\ connections' = h.connections
        /\ connectionCount' = h.connectionCount
  /\ UNCHANGED <<orders, jobs, responses, sockets, gateExpected>>
  /\ UNCHANGED <<pureVars, cacheVars>>

(* wsManager.closeOrderConnections called for any known order *)
CloseOrderConnections(orderId) ==
  /\ orderId \in KnownIds
  /\ LET st == closeOrderConnections(HubState(TheHub, sockets, inbox, NoDelivery), orderId)
     IN /\ connections' = st.hub.connections
        /\ connectionCount' = st.hub.connectionCount
        /\ sockets' = st.sockets
        /\ inbox' = st.inbox
        /\ delivered' = st.delivered
  /\ UNCHANGED <<orders, jobs, responses, gateExpected>>
  /\ UNCHANGED <<pureVars, cacheVars>>

(* wsManager.closeAll *)
CloseAll ==
  /\ LET st == closeAll(HubState(TheHub, sockets, inbox, NoDelivery))
     IN /\ connections' = st.hub.connections
        /\ connectionCount' = st.hub.connectionCount
        /\ sockets' = st.sockets
        /\ inbox' = st.inbox
        /\ delivered' = st.delivered
  /\ UNCHANGED <<orders, jobs, responses, gateExpected>>
  /\ UNCHANGED <<pureVars, cacheVars>>

-----------------------------------------------------------------------------
(* services/dex: the router's outcome and the swap executor *)

RaydiumFeeBps == 30

MeteoraFeeBps == 20

(* quote.price and decision.selectedProvider of a routing decision *)
QuoteOutcomes == {[provider |-> RAYDIUM, price |-> 100], [provider |-> METEORA, price |-> 200]}

(* MockDexRouter.  A quote's amountOut is an integer number of the output  *)
(* token's smallest units; fee and priceImpact are in basis points, so     *)
(* amountOut * (1 - priceImpact) is compared exactly, scaled by BpsScale.  *)
Quote(provider, amountOut, fee, priceImpact) ==
  [provider |-> provider, amountOut |-> amountOut, fee |-> fee, priceImpact |-> priceImpact]

EffectiveOutput(quote) == quote.amountOut * (BpsScale - quote.priceImpact)

selectBestDexByAmountOut(raydiumQuote, meteoraQuote) ==
  [raydiumQuote |-> raydiumQuote, meteoraQuote |-> meteoraQuote,
   selectedProvider |->
     IF raydiumQuote.amountOut >= meteoraQuote.amountOut THEN RAYDIUM ELSE METEORA]

(* a selection that looks at the previous call's outcome *)
selectBestDexByHistory(raydiumQuote, meteoraQuote) ==
  [raydiumQuote |-> raydiumQuote, meteoraQuote |-> meteoraQuote,
   selectedProvider |->
     IF (EffectiveOutput(raydiumQuote) >= EffectiveOutput(meteoraQuote)) = (rtResult.op = None)
     THEN RAYDIUM ELSE METEORA]

selectBestDex(raydiumQuote, meteoraQuote) ==
  [raydiumQuote |-> raydiumQuote, meteoraQuote |-> meteoraQuote,
   selectedProvider |->
     IF EffectiveOutput(raydiumQuote) >= EffectiveOutput(meteoraQuote)
     THEN RAYDIUM ELSE METEORA]

(* getBestQuote on the quotes getQuotes returned *)
getBestQuote(raydiumQuote, meteoraQuote) ==
  LET decision == selectBestDex(raydiumQuote, meteoraQuote)
  IN [quote |-> IF decision.selectedProvider = RAYDIUM THEN raydiumQuote ELSE meteoraQuote,
      decision |-> decision]

Abs(x) == IF x < 0 THEN -x ELSE x

(* quote.price: the drivers compute amountOut as amountIn * (1 - fee) *   *)
(* price, so the price of one input unit is amountOut / (1 - fee).         *)
PriceOf(quote) == (quote.amountOut * BpsScale) \div (BpsScale - quote.fee)

(* calculatePercentageDiff, in hundredths of a percent as toFixed(2)       *)
(* prints it                                                               *)
calculatePercentageDiff(value1, value2) == ((value2 - value1) * 10000) \div value1

(* generateRoutingReason: the reasons pushed, in order; the string is      *)
(* "<selected> selected with similar pricing" when there is none, else     *)
(* "<selected> offers: " followed by the reasons.  fee and priceImpact are *)
(* fractions in the source, basis points here: their difference times 100 *)
(* is the basis points' difference in hundredths of a percent.             *)
generateRoutingReason(selected, selectedQuote, otherQuote, priceDiff) ==
  LET outputDiff == calculatePercentageDiff(otherQuote.amountOut, selectedQuote.amountOut)
      price == IF Abs(priceDiff) > 100
               THEN <<[text |-> "% better price", value |-> Abs(priceDiff)]>> ELSE << >>
      output == IF outputDiff > 50
                THEN <<[text |-> "% more output", value |-> outputDiff]>> ELSE << >>
      fees == IF selectedQuote.fee < otherQuote.fee
              THEN <<[text |-> "% lower fees", value |-> otherQuote.fee - selectedQuote.fee]>>
              ELSE << >>
      impact == IF selectedQuote.priceImpact < otherQuote.priceImpact
                THEN <<[text |-> "% lower price impact",
                        value |-> otherQuote.priceImpact - selectedQuote.priceImpact]>>
                ELSE << >>
      reasons == price \o output \o fees \o impact
  IN [selected |-> selected,
      text |-> IF reasons = << >> THEN "selected with similar pricing" ELSE "offers",
      reasons |-> reasons]

(* the rest of selectBestDex's decision: priceDifference and reason (the   *)
(* decision's timestamp is the clock's and is left out)                    *)
routingDecision(raydiumQuote, meteoraQuote) ==
  LET selectedProvider == selectBestDex(raydiumQuote, meteoraQuote).selectedProvider
      selectedQuote == IF selectedProvider = RAYDIUM THEN raydiumQuote ELSE meteoraQuote
      otherQuote == IF selectedProvider = RAYDIUM THEN meteoraQuote ELSE raydiumQuote
      priceDifference == calculatePercentageDiff(PriceOf(otherQuote), PriceOf(selectedQuote))
  IN [selectedProvider |-> selectedProvider,
      priceDifference |-> priceDifference,
      reason |-> generateRoutingReason(selectedProvider, selectedQuote, otherQuote,
                                       priceDifference)]

(* a driver whose getQuote rejects *)
QuoteRejected == Quote("rejected", 0, 0, 0)

(* MockDexRouter.getQuotes: Promise.all over the two drivers rejects as    *)
(* soon as one of them does                                                *)
getQuotes(raydiumQuote, meteoraQuote) ==
  IF raydiumQuote = QuoteRejected \/ meteoraQuote = QuoteRejected
  THEN [rejected |-> TRUE, raydiumQuote |-> NoQuote, meteoraQuote |-> NoQuote]
  ELSE [rejected |-> FALSE, raydiumQuote |-> raydiumQuote, meteoraQuote |-> meteoraQuote]

(* The quotes a venue can return: amountOut and priceImpact vary with the  *)
(* price variance and the trade size, the fee is the venue's.              *)
AmountOuts == {9989, 9990, 9991}

PriceImpacts == {8, 10}

RaydiumQuotes ==
  {Quote(RAYDIUM, a, RaydiumFeeBps, p) : a \in AmountOuts, p \in PriceImpacts}

MeteoraQuotes ==
  {Quote(METEORA, a, MeteoraFeeBps, p) : a \in AmountOuts, p \in PriceImpacts}

(* actualSlippage of a swap, in basis points.  The mock draws it below the *)
(* order's tolerance; a venue driver may return any.                       *)
ActualSlippages == {100, 200}

validateSlippageAlways(expectedPrice, executedPrice, maxSlippage) == TRUE

validateSlippage(expectedPrice, executedPrice, maxSlippage) ==
  Abs(expectedPrice - executedPrice) * BpsScale <= maxSlippage * expectedPrice

mockExecuteSwap(dexProvider, amountIn, expectedPrice, actualSlippage, txHash) ==
  LET executedPrice == (expectedPrice * (BpsScale - actualSlippage)) \div BpsScale
      fee == IF dexProvider = RAYDIUM THEN RaydiumFeeBps ELSE MeteoraFeeBps
  IN [txHash |-> txHash, executedPrice |-> executedPrice,
      amountOut |-> (amountIn * (BpsScale - fee) * executedPrice) \div BpsScale]

SwapError == "Failed to execute swap on DEX"

RouteError == "Failed to determine best DEX route"

(* DexService.getRoutingDecision on the drivers' outcomes: getBestQuote    *)
(* awaits getQuotes, and any rejection is rethrown as a routing error      *)
getRoutingDecision(raydiumQuote, meteoraQuote) ==
  LET quotes == getQuotes(raydiumQuote, meteoraQuote)
  IN IF quotes.rejected
     THEN [error |-> RouteError, quote |-> NoQuote, selectedProvider |-> None]
     ELSE LET best == getBestQuote(quotes.raydiumQuote, quotes.meteoraQuote)
          IN [error |-> None, quote |-> best.quote,
              selectedProvider |-> best.decision.selectedProvider]

(* the message of an exception thrown by a Store or queue call *)
InfraError == "infrastructure error"

-----------------------------------------------------------------------------
(* queue/orderProcessor.ts: processOrder, one action per awaited step *)

JobIds == 1..Len(jobs)

SetJob(i, j) == jobs' = [jobs EXCEPT ![i] = j]

Throw(j, message) == [j EXCEPT !.pc = "catch", !.error = message]

(* the error thrown inside executeSwap's try block when the gate rejects   *)
(* the execution                                                           *)
SlippageError == "Slippage exceeded tolerance"

(* a venue driver's failure; cause keeps what was thrown inside the try    *)
VenueErrors == {"venue temporary failure", "venue permanent failure"}

(* DexService.executeSwap's catch: whatever was thrown inside the try is   *)
(* replaced by one OrderExecutionError, the original kept in its details   *)
executeSwapThrows(j, inner) == [Throw(j, SwapError) EXCEPT !.cause = inner]

(* The attempt ended with an exception: BullMQ counts it and retries or fails the job *)
AttemptFailed(j) ==
  [j EXCEPT !.attemptsMade = j.attemptsMade + 1,
            !.state = IF QueueRetries(j.attemptsMade) THEN "waiting" ELSE "failed",
            !.pc = None, !.quote = None, !.result = None, !.error = None,
            !.cause = None, !.holders = j.holders - 1]

Completed(j, value) ==
  [j EXCEPT !.state = "completed", !.pc = None, !.quote = None, !.result = None,
            !.error = None, !.cause = None, !.returnvalue = value,
            !.holders = j.holders - 1]

StatusOfPc(pc) ==
  CASE pc \in {"routing_db", "routing_ws"} -> ROUTING
    [] pc \in {"building_db", "building_ws"} -> BUILDING
    [] pc \in {"submitted_db", "submitted_ws"} -> SUBMITTED
    [] pc \in {"confirmed_db", "confirmed_ws"} -> CONFIRMED
    [] pc \in {"failed_db", "failed_ws"} -> FAILED

DbPcs == {"routing_db", "building_db", "submitted_db", "confirmed_db", "failed_db"}

WsPcs == {"routing_ws", "building_ws", "submitted_ws", "confirmed_ws", "failed_ws"}

WsOfDb(pc) ==
  CASE pc = "routing_db" -> "routing_ws"
    [] pc = "building_db" -> "building_ws"
    [] pc = "submitted_db" -> "submitted_ws"
    [] pc = "confirmed_db" -> "confirmed_ws"
    [] pc = "failed_db" -> "failed_ws"

(* attemptNumber < environment.queue.maxRetryAttempts - 1 *)
ShouldRetryEarly(attemptNumber) == attemptNumber < maxRetryAttempts - 2

ShouldRetry(attemptNumber) == attemptNumber < maxRetryAttempts - 1

(* The worker leases a waiting job and processOrder runs to its first await. *)
Lease(i) ==
  /\ i \in JobIds
  /\ CanLease(jobs[i])
  /\ LET leased == [jobs[i] EXCEPT !.holders = jobs[i].holders + 1]
     IN IF ~isValidUUID(jobs[i].orderId)
        THEN SetJob(i, Completed(leased, "skipped"))
        ELSE SetJob(i, [leased EXCEPT !.state = "active", !.pc = "routing_db"])
  /\ UNCHANGED <<orders, responses, connections, connectionCount, sockets, inbox, gateExpected>>
  /\ delivered' = NoDelivery
  /\ UNCHANGED <<pureVars, cacheVars>>

(* updateOrderStatus, first await: orderRepository.updateStatus *)
UpdateStatusDb(i) ==
  /\ i \in JobIds
  /\ jobs[i].state = "active"
  /\ jobs[i].pc \in DbPcs
  /\ \/ /\ orders' = updateStatus(orders, jobs[i].orderId, StatusOfPc(jobs[i].pc))
        /\ updatedAt' = Stamped(updatedAt, jobs[i].orderId, "store")
        /\ SetJob(i, [jobs[i] EXCEPT !.pc = WsOfDb(jobs[i].pc)])
     \/ \* the Store write throws
        /\ UNCHANGED <<orders, updatedAt>>
        /\ IF jobs[i].pc = "failed_db"
           THEN SetJob(i, AttemptFailed(jobs[i]))
           ELSE SetJob(i, Throw(jobs[i], InfraError))
  /\ UNCHANGED <<responses, connections, connectionCount, sockets, inbox, gateExpected>>
  /\ delivered' = NoDelivery
  /\ UNCHANGED <<pureVars, cache, updateLog>>

(* updateOrderStatus, after the Store write: the update log and the broadcast, *)
(* then the statements up to the next Store or venue call.                     *)
BroadcastStatus(i) ==
  /\ i \in JobIds
  /\ jobs[i].state = "active"
  /\ jobs[i].pc \in WsPcs
  /\ LET o == jobs[i].orderId
         st == StatusOfPc(jobs[i].pc)
         h == broadcastHub(TheHub, sockets, o)
     IN /\ inbox' = broadcastInbox(TheHub, sockets, inbox, o, st)
        /\ delivered' = broadcastDelivered(TheHub, sockets, o, st)
        /\ connections' = h.connections
        /\ connectionCount' = h.connectionCount
  /\ CASE jobs[i].pc = "routing_ws" ->
            \/ SetJob(i, [jobs[i] EXCEPT !.pc = "route"])
            \/ SetJob(i, Throw(jobs[i], InfraError))
       [] jobs[i].pc = "building_ws" ->
            \/ SetJob(i, [jobs[i] EXCEPT !.pc = "submitted_db"])
            \/ SetJob(i, Throw(jobs[i], InfraError))
       [] jobs[i].pc = "submitted_ws" ->
            SetJob(i, [jobs[i] EXCEPT !.pc = "swap"])
       [] jobs[i].pc = "confirmed_ws" ->
            \/ SetJob(i, Completed(jobs[i], "success"))
            \/ SetJob(i, Throw(jobs[i], InfraError))
       [] jobs[i].pc = "failed_ws" ->
            SetJob(i, AttemptFailed(jobs[i]))
  /\ updateLog' = cacheStatusUpdate(updateLog, jobs[i].orderId, StatusOfPc(jobs[i].pc))
  /\ UNCHANGED <<orders, responses, sockets, gateExpected>>
  /\ UNCHANGED <<pureVars, cache, updatedAt>>

(* dexService.getRoutingDecision, then job.updateProgress(40) *)
Route(i) ==
  /\ i \in JobIds
  /\ jobs[i].state = "active"
  /\ jobs[i].pc = "route"
  /\ \/ \E q \in QuoteOutcomes :
          \/ SetJob(i, [jobs[i] EXCEPT !.pc = "building_db", !.quote = q])
          \/ SetJob(i, Throw(jobs[i], InfraError))
     \/ SetJob(i, Throw(jobs[i], RouteError))
  /\ UNCHANGED <<orders, responses, connections, connectionCount, sockets, inbox, gateExpected>>
  /\ delivered' = NoDelivery
  /\ UNCHANGED <<pureVars, cacheVars>>

(* dexService.executeSwap (the swap, then the slippage gate), then updateProgress(80) *)
ExecuteSwap(i) ==
  /\ i \in JobIds
  /\ jobs[i].state = "active"
  /\ jobs[i].pc = "swap"
  /\ \/ \E a \in ActualSlippages :
          LET j == jobs[i]
              result == mockExecuteSwap(j.quote.provider, j.data.amountIn, j.quote.price,
                                        a, j.attemptsMade + 1)
          IN IF validateSlippage(j.quote.price, result.executedPrice, j.data.slippage)
             THEN \/ SetJob(i, [j EXCEPT !.pc = "exec_db", !.result = result])
                  \/ SetJob(i, Throw(j, InfraError))
             ELSE SetJob(i, executeSwapThrows(j, SlippageError))
     \/ \* the venue call itself throws
        \E e \in VenueErrors : SetJob(i, executeSwapThrows(jobs[i], e))
  /\ UNCHANGED <<orders, responses, connections, connectionCount, sockets, inbox, gateExpected>>
  /\ delivered' = NoDelivery
  /\ UNCHANGED <<pureVars, cacheVars>>

(* orderRepository.updateExecution, then cacheService.updateCachedOrderStatus *)
RecordExecution(i) ==
  /\ i \in JobIds
  /\ jobs[i].state = "active"
  /\ jobs[i].pc = "exec_db"
  /\ \/ LET j == jobs[i]
        IN /\ orders' = updateExecution(orders, j.orderId,
                           [executedPrice |-> j.result.executedPrice,
                            amountOut |-> j.result.amountOut,
                            dexProvider |-> j.quote.provider,
                            txHash |-> j.result.txHash])
           /\ gateExpected' = [gateExpected EXCEPT ![j.orderId] = j.quote.price]
           /\ cache' = updateCachedOrderStatus(cache, j.orderId, CONFIRMED)
           /\ updatedAt' = Stamped(Stamped(updatedAt, j.orderId, "store"), j.orderId, "cache")
           /\ SetJob(i, [j EXCEPT !.pc = "confirmed_db"])
     \/ /\ UNCHANGED <<orders, gateExpected, cache, updatedAt>>
        /\ SetJob(i, Throw(jobs[i], InfraError))
  /\ UNCHANGED <<responses, connections, connectionCount, sockets, inbox>>
  /\ delivered' = NoDelivery
  /\ UNCHANGED <<pureVars, updateLog>>

(* catch: orderRepository.incrementRetry, then rethrow; on the last attempt *)
(* orderRepository.markFailed and the cache update instead.                *)
Catch(i) ==
  /\ i \in JobIds
  /\ jobs[i].state = "active"
  /\ jobs[i].pc = "catch"
  /\ \/ /\ orders' = incrementRetry(orders, jobs[i].orderId)
        /\ updatedAt' = Stamped(updatedAt, jobs[i].orderId, "store")
        /\ UNCHANGED cache
        /\ ShouldRetry(jobs[i].attemptsMade)
        /\ SetJob(i, AttemptFailed(jobs[i]))
     \/ /\ ~ShouldRetry(jobs[i].attemptsMade)
        /\ \/ /\ orders' = markFailed(incrementRetry(orders, jobs[i].orderId), jobs[i].orderId,
                                      jobs[i].error, jobs[i].attemptsMade + 1)
              /\ cache' = updateCachedOrderStatus(cache, jobs[i].orderId, FAILED)
              /\ updatedAt' = Stamped(Stamped(updatedAt, jobs[i].orderId, "store"),
                                      jobs[i].orderId, "cache")
              /\ SetJob(i, [jobs[i] EXCEPT !.pc = "failed_db"])
           \/ \* markFailed throws
              /\ orders' = incrementRetry(orders, jobs[i].orderId)
              /\ updatedAt' = Stamped(updatedAt, jobs[i].orderId, "store")
              /\ UNCHANGED cache
              /\ SetJob(i, AttemptFailed(jobs[i]))
     \/ \* incrementRetry throws
        /\ UNCHANGED <<orders, cache, updatedAt>>
        /\ SetJob(i, AttemptFailed(jobs[i]))
  /\ UNCHANGED <<responses, connections, connectionCount, sockets, inbox, gateExpected>>
  /\ delivered' = NoDelivery
  /\ UNCHANGED <<pureVars, updateLog>>

(* The worker holding the job crashes without acknowledging it; the queue *)
(* hands the job out again.                                               *)
WorkerCrashes(i) ==
  /\ i \in JobIds
  /\ jobs[i].state = "active"
  /\ jobs[i].stalledCounter < MaxStalls
  /\ SetJob(i, [jobs[i] EXCEPT !.state = "waiting", !.pc = None, !.quote = None,
                               !.result = None, !.error = None, !.cause = None,
                               !.holders = jobs[i].holders - 1,
                               !.stalledCounter = jobs[i].stalledCounter + 1,
                               !.crashedIn = IF jobs[i].orderId \in DOMAIN orders
                                             THEN orders[jobs[i].orderId].status
                                             ELSE None])
  /\ UNCHANGED <<orders, responses, connections, connectionCount, sockets, inbox, gateExpected>>
  /\ delivered' = NoDelivery
  /\ UNCHANGED <<pureVars, cacheVars>>

(* cacheService.cacheOrder called with an order read from the Store *)
CacheOrder(orderId) ==
  /\ orderId \in DOMAIN orders
  /\ orderId \notin DOMAIN cache
  /\ cache' = cacheOrder(cache, orderId, orders[orderId])
  /\ updatedAt' = cacheOrderUpdatedAt(updatedAt, orderId)
  /\ UNCHANGED <<orders, jobs, responses, connections, connectionCount, sockets, inbox,
                 gateExpected, updateLog>>
  /\ delivered' = NoDelivery
  /\ UNCHANGED pureVars

-----------------------------------------------------------------------------

Init ==
  /\ orders = << >>
  /\ jobs = << >>
  /\ responses = << >>
  /\ connections = << >>
  /\ connectionCount = 0
  /\ sockets = [s \in Sinks |-> [orderId |-> NoId, readyState |-> "new", closeEvent |-> FALSE,
                           beforeProcessing |-> FALSE, sendThrows |-> FALSE]]
  /\ inbox = [s \in Sinks |-> << >>]
  /\ delivered = NoDelivery
  /\ gateExpected = << >>
  /\ cache = << >> /\ updatedAt = << >> /\ updateLog = << >>
  /\ logList = << >> /\ logResult = NoCall /\ incCalls = NoIncCalls /\ shutdownPc = "running"
  /\ wsIn = None /\ wsOut = None /\ wsAmount = 0 /\ wsResult = NoCall
  /\ rtRaydium = NoQuote /\ rtMeteora = NoQuote /\ rtResult = NoCall

Next ==
  \/ \E req \in Requests : Submit(req)
  \/ \E id \in DOMAIN orders : EnqueueStoreId(id)
  \/ \E i \in JobIds : Lease(i)
  \/ \E i \in JobIds : UpdateStatusDb(i)
  \/ \E i \in JobIds : BroadcastStatus(i)
  \/ \E i \in JobIds : Route(i)
  \/ \E i \in JobIds : ExecuteSwap(i)
  \/ \E i \in JobIds : RecordExecution(i)
  \/ \E i \in JobIds : Catch(i)
  \/ \E s \in Sinks, id \in KnownIds : RegisterConnection(s, id)
  \/ \E s \in Sinks : SocketCloses(s)
  \/ \E s \in Sinks : OnError(s)
  \/ \E s \in Sinks : OnClose(s)
  \/ \E i \in JobIds : WorkerCrashes(i)
  \/ \E s \in Sinks : SocketBreaks(s)
  \/ \E id \in KnownIds, status \in BroadcastStatuses : BroadcastStatusUpdate(id, status)
  \/ \E id \in KnownIds : CloseOrderConnections(id)
  \/ CloseAll

Spec == Init /\ [][Next]_vars

NextWorker ==
  \/ \E req \in Requests : Submit(req)
  \/ \E id \in DOMAIN orders : EnqueueStoreId(id)
  \/ \E i \in JobIds : Lease(i)
  \/ \E i \in JobIds : UpdateStatusDb(i)
  \/ \E i \in JobIds : BroadcastStatus(i)
  \/ \E i \in JobIds : Route(i)
  \/ \E i \in JobIds : ExecuteSwap(i)
  \/ \E i \in JobIds : RecordExecution(i)
  \/ \E i \in JobIds : Catch(i)

WorkerSpec == Init /\ [][NextWorker]_vars


(* The hub under a processed order: the row is in the Store (Submit's own  *)
(* enqueue failed) and its job was enqueued under the Store id.            *)
PlainSwap == Request(NATIVE_SOL_ADDRESS, USDC_ADDRESS, MaxAmount)

InitHub ==
  /\ orders = createOrder(<< >>, RowId(2), NewOrderRecord(PlainSwap))
  /\ jobs = addOrderToQueue(<< >>, RowId(2), PlainSwap)
  /\ responses = <<Reply(500, NoId, RowId(2), PlainSwap)>>
  /\ connections = << >>
  /\ connectionCount = 0
  /\ sockets = [s \in Sinks |-> [orderId |-> NoId, readyState |-> "new", closeEvent |-> FALSE,
                           beforeProcessing |-> FALSE, sendThrows |-> FALSE]]
  /\ inbox = [s \in Sinks |-> << >>]
  /\ delivered = NoDelivery
  /\ gateExpected = (RowId(2) :> 0)
  /\ cache = << >> /\ updatedAt = << >> /\ updateLog = << >>
  /\ logList = << >> /\ logResult = NoCall /\ incCalls = NoIncCalls /\ shutdownPc = "running"
  /\ wsIn = None /\ wsOut = None /\ wsAmount = 0 /\ wsResult = NoCall
  /\ rtRaydium = NoQuote /\ rtMeteora = NoQuote /\ rtResult = NoCall

NextHub ==
  \/ \E i \in JobIds : Lease(i)
  \/ \E i \in JobIds : UpdateStatusDb(i)
  \/ \E i \in JobIds : BroadcastStatus(i)
  \/ \E i \in JobIds : Route(i)
  \/ \E i \in JobIds : ExecuteSwap(i)
  \/ \E i \in JobIds : RecordExecution(i)
  \/ \E i \in JobIds : Catch(i)
  \/ \E s \in Sinks, id \in KnownIds : RegisterConnection(s, id)
  \/ \E s \in Sinks : SocketCloses(s)
  \/ \E s \in Sinks : OnError(s)
  \/ \E s \in Sinks : OnClose(s)

HubSpec == InitHub /\ [][NextHub]_vars

(* The worker on one processed order, with crashes: a job whose worker    *)
(* died before acknowledging it is leased again.                          *)
NextLease ==
  \/ \E i \in JobIds : Lease(i)
  \/ \E i \in JobIds : UpdateStatusDb(i)
  \/ \E i \in JobIds : BroadcastStatus(i)
  \/ \E i \in JobIds : Route(i)
  \/ \E i \in JobIds : ExecuteSwap(i)
  \/ \E i \in JobIds : RecordExecution(i)
  \/ \E i \in JobIds : Catch(i)
  \/ \E i \in JobIds : WorkerCrashes(i)

LeaseSpec == InitHub /\ [][NextLease]_vars

(* The hub's operations called in any order, as its callers and the       *)
(* sockets' events can: one accepted order, known by the id Submit         *)
(* returned and by its Store id, whose job is not leased.                  *)
InitRegistry ==
  /\ orders = createOrder(<< >>, RowId(2), NewOrderRecord(PlainSwap))
  /\ jobs = addOrderToQueue(<< >>, ApiOrderId(1), PlainSwap)
  /\ responses = <<Reply(200, ApiOrderId(1), RowId(2), PlainSwap)>>
  /\ connections = << >>
  /\ connectionCount = 0
  /\ sockets = [s \in Sinks |-> [orderId |-> NoId, readyState |-> "new", closeEvent |-> FALSE,
                           beforeProcessing |-> FALSE, sendThrows |-> FALSE]]
  /\ inbox = [s \in Sinks |-> << >>]
  /\ delivered = NoDelivery
  /\ gateExpected = (RowId(2) :> 0)
  /\ cache = << >> /\ updatedAt = << >> /\ updateLog = << >>
  /\ logList = << >> /\ logResult = NoCall /\ incCalls = NoIncCalls /\ shutdownPc = "running"
  /\ wsIn = None /\ wsOut = None /\ wsAmount = 0 /\ wsResult = NoCall
  /\ rtRaydium = NoQuote /\ rtMeteora = NoQuote /\ rtResult = NoCall

NextRegistry ==
  \/ \E s \in Sinks, id \in KnownIds : RegisterConnection(s, id)
  \/ \E s \in Sinks : SocketCloses(s)
  \/ \E s \in Sinks : SocketBreaks(s)
  \/ \E s \in Sinks : OnError(s)
  \/ \E s \in Sinks : OnClose(s)
  \/ \E id \in KnownIds, status \in BroadcastStatuses : BroadcastStatusUpdate(id, status)
  \/ \E id \in KnownIds : CloseOrderConnections(id)
  \/ CloseAll

RegistrySpec == InitRegistry /\ [][NextRegistry]_vars

-----------------------------------------------------------------------------
(* The WSOL handler as a pure function: calls on every pair of addresses *)

InitWsol ==
  /\ orders = << >>
  /\ jobs = << >>
  /\ responses = << >>
  /\ connections = << >>
  /\ connectionCount = 0
  /\ sockets = [s \in Sinks |-> [orderId |-> NoId, readyState |-> "new", closeEvent |-> FALSE,
                           beforeProcessing |-> FALSE, sendThrows |-> FALSE]]
  /\ inbox = [s \in Sinks |-> << >>]
  /\ delivered = NoDelivery
  /\ gateExpected = << >>
  /\ cache = << >> /\ updatedAt = << >> /\ updateLog = << >>
  /\ logList = << >> /\ logResult = NoCall /\ incCalls = NoIncCalls /\ shutdownPc = "running"
  /\ wsIn \in Addresses /\ wsOut \in Addresses /\ wsAmount \in 0..MaxAmount
  /\ wsResult = NoCall
  /\ rtRaydium = NoQuote /\ rtMeteora = NoQuote /\ rtResult = NoCall

CallValidateTokenAddresses ==
  /\ wsResult' = [op |-> "validateTokenAddresses", value |-> validateTokenAddresses(wsIn, wsOut)]
  /\ UNCHANGED <<coreVars, auxVars, wsIn, wsOut, wsAmount, rtVars>>

CallNormalizeTokenPair ==
  /\ wsResult' = [op |-> "normalizeTokenPair", value |-> normalizeTokenPair(wsIn, wsOut)]
  /\ UNCHANGED <<coreVars, auxVars, wsIn, wsOut, wsAmount, rtVars>>

CallGetWrapInstructions ==
  /\ wsResult' = [op |-> "getWrapInstructions",
                  value |-> getWrapInstructions(wsIn, wsOut, wsAmount)]
  /\ UNCHANGED <<coreVars, auxVars, wsIn, wsOut, wsAmount, rtVars>>

NextWsol ==
  \/ CallValidateTokenAddresses
  \/ CallNormalizeTokenPair
  \/ CallGetWrapInstructions

WsolSpec == InitWsol /\ [][NextWsol]_vars

-----------------------------------------------------------------------------
(* The router as a pure function: calls on every pair of quotes *)

InitRouter ==
  /\ orders = << >>
  /\ jobs = << >>
  /\ responses = << >>
  /\ connections = << >>
  /\ connectionCount = 0
  /\ sockets = [s \in Sinks |-> [orderId |-> NoId, readyState |-> "new", closeEvent |-> FALSE,
                           beforeProcessing |-> FALSE, sendThrows |-> FALSE]]
  /\ inbox = [s \in Sinks |-> << >>]
  /\ delivered = NoDelivery
  /\ gateExpected = << >>
  /\ cache = << >> /\ updatedAt = << >> /\ updateLog = << >>
  /\ logList = << >> /\ logResult = NoCall /\ incCalls = NoIncCalls /\ shutdownPc = "running"
  /\ wsIn = None /\ wsOut = None /\ wsAmount = 0
  /\ wsResult = NoCall
  /\ rtRaydium \in RaydiumQuotes /\ rtMeteora \in MeteoraQuotes
  /\ rtResult = NoCall

CallSelectBestDex ==
  /\ rtResult' = [op |-> "selectBestDex", value |-> selectBestDex(rtRaydium, rtMeteora)]
  /\ UNCHANGED <<coreVars, auxVars, wsVars, rtRaydium, rtMeteora>>

CallGetBestQuote ==
  /\ rtResult' = [op |-> "getBestQuote", value |-> getBestQuote(rtRaydium, rtMeteora)]
  /\ UNCHANGED <<coreVars, auxVars, wsVars, rtRaydium, rtMeteora>>

NextRouter ==
  \/ CallSelectBestDex
  \/ CallGetBestQuote

RouterSpec == InitRouter /\ [][NextRouter]_vars

(* The processor on one order whose copy may be put in the cache *)
NextCache ==
  \/ \E i \in JobIds : Lease(i)
  \/ \E i \in JobIds : UpdateStatusDb(i)
  \/ \E i \in JobIds : BroadcastStatus(i)
  \/ \E i \in JobIds : Route(i)
  \/ \E i \in JobIds : ExecuteSwap(i)
  \/ \E i \in JobIds : RecordExecution(i)
  \/ \E i \in JobIds : Catch(i)
  \/ \E id \in DOMAIN orders : CacheOrder(id)

CacheSpec == InitHub /\ [][NextCache]_vars

(* CacheService's update list of one order: cacheStatusUpdate and         *)
(* getStatusUpdates called in any order                                    *)
MaxLogged == 51

InitLog ==
  /\ orders = << >>
  /\ jobs = << >>
  /\ responses = << >>
  /\ connections = << >>
  /\ connectionCount = 0
  /\ sockets = [s \in Sinks |-> [orderId |-> NoId, readyState |-> "new", closeEvent |-> FALSE,
                           beforeProcessing |-> FALSE, sendThrows |-> FALSE]]
  /\ inbox = [s \in Sinks |-> << >>]
  /\ delivered = NoDelivery
  /\ gateExpected = << >>
  /\ cache = << >> /\ updatedAt = << >> /\ updateLog = << >>
  /\ logList = << >> /\ logResult = NoCall /\ incCalls = NoIncCalls /\ shutdownPc = "running"
  /\ wsIn = None /\ wsOut = None /\ wsAmount = 0 /\ wsResult = NoCall
  /\ rtRaydium = NoQuote /\ rtMeteora = NoQuote /\ rtResult = NoCall

CallCacheStatusUpdate ==
  /\ Len(logList) < MaxLogged
  /\ logList' = lpush(logList, Len(logList) + 1)
  /\ UNCHANGED <<coreVars, wsVars, rtVars, logResult, incCalls, shutdownPc>>

CallGetStatusUpdates ==
  /\ logResult' = [op |-> "getStatusUpdates", value |-> getStatusUpdates(logList)]
  /\ UNCHANGED <<coreVars, wsVars, rtVars, logList, incCalls, shutdownPc>>

NextLog ==
  \/ CallCacheStatusUpdate
  \/ CallGetStatusUpdates

LogSpec == InitLog /\ [][NextLog]_vars

(* OrderRepository.incrementRetry and markFailed called on one order by   *)
(* callers that run at the same time (the worker's concurrency)            *)
MaxIncrements == 2

IncrementRetryRead(c, orderId) ==
  /\ orderId \in DOMAIN orders
  /\ incCalls[c].pc = "idle"
  /\ incCalls[c].done < MaxIncrements
  /\ incCalls' = [incCalls EXCEPT ![c].pc = "read",
                                  ![c].read = incrementRetryRead(orders, orderId)]
  /\ UNCHANGED <<coreVars, wsVars, rtVars, logList, logResult, shutdownPc>>

IncrementRetryWrite(c, orderId) ==
  /\ orderId \in DOMAIN orders
  /\ incCalls[c].pc = "read"
  /\ orders' = incrementRetryWrite(orders, orderId, incCalls[c].read)
  /\ incCalls' = [incCalls EXCEPT ![c].pc = "idle", ![c].read = 0,
                                  ![c].done = incCalls[c].done + 1]
  /\ UNCHANGED <<jobs, responses, connections, connectionCount, sockets, inbox, delivered,
                 gateExpected, cacheVars>>
  /\ UNCHANGED <<wsVars, rtVars, logList, logResult, shutdownPc>>

CallMarkFailed(orderId) ==
  /\ orderId \in DOMAIN orders
  /\ orders[orderId].status # FAILED
  /\ orders' = markFailed(orders, orderId, InfraError, maxRetryAttempts)
  /\ UNCHANGED <<jobs, responses, connections, connectionCount, sockets, inbox, delivered,
                 gateExpected, cacheVars>>
  /\ UNCHANGED pureVars

NextRetry ==
  \/ \E c \in Callers, id \in DOMAIN orders : IncrementRetryRead(c, id)
  \/ \E c \in Callers, id \in DOMAIN orders : IncrementRetryWrite(c, id)
  \/ \E id \in DOMAIN orders : CallMarkFailed(id)

RetrySpec == InitHub /\ [][NextRetry]_vars

(* The router's decision evaluated again on the same quotes *)
MaxEvaluations == 2

EvaluateDecision ==
  /\ IF rtResult.op = None THEN TRUE ELSE rtResult.evaluation < MaxEvaluations
  /\ rtResult' = [op |-> "routingDecision",
                  value |-> routingDecision(rtRaydium, rtMeteora),
                  evaluation |-> IF rtResult.op = None THEN 1 ELSE rtResult.evaluation + 1]
  /\ UNCHANGED <<coreVars, auxVars, wsVars, rtRaydium, rtMeteora>>

NextDecision == EvaluateDecision

DecisionSpec == InitRouter /\ [][NextDecision]_vars

(* Routing when a driver may reject *)
InitRouting ==
  /\ orders = << >>
  /\ jobs = << >>
  /\ responses = << >>
  /\ connections = << >>
  /\ connectionCount = 0
  /\ sockets = [s \in Sinks |-> [orderId |-> NoId, readyState |-> "new", closeEvent |-> FALSE,
                           beforeProcessing |-> FALSE, sendThrows |-> FALSE]]
  /\ inbox = [s \in Sinks |-> << >>]
  /\ delivered = NoDelivery
  /\ gateExpected = << >>
  /\ cache = << >> /\ updatedAt = << >> /\ updateLog = << >>
  /\ logList = << >> /\ logResult = NoCall /\ incCalls = NoIncCalls /\ shutdownPc = "running"
  /\ wsIn = None /\ wsOut = None /\ wsAmount = 0
  /\ wsResult = NoCall
  /\ rtRaydium \in RaydiumQuotes \cup {QuoteRejected}
  /\ rtMeteora \in MeteoraQuotes \cup {QuoteRejected}
  /\ rtResult = NoCall

CallGetQuotes ==
  /\ rtResult' = [op |-> "getQuotes", value |-> getQuotes(rtRaydium, rtMeteora)]
  /\ UNCHANGED <<coreVars, auxVars, wsVars, rtRaydium, rtMeteora>>

CallGetRoutingDecision ==
  /\ rtResult' = [op |-> "getRoutingDecision",
                  value |-> getRoutingDecision(rtRaydium, rtMeteora)]
  /\ UNCHANGED <<coreVars, auxVars, wsVars, rtRaydium, rtMeteora>>

NextRouting ==
  \/ CallGetQuotes
  \/ CallGetRoutingDecision

RoutingSpec == InitRouting /\ [][NextRouting]_vars

(* gracefulShutdown: on SIGTERM or SIGINT the server awaits fastify.close, *)
(* closeDatabaseConnection and closeRedisConnection in this order, then    *)
(* exits. It calls neither closeWorker nor wsManager.closeAll.             *)
GracefulShutdown ==
  /\ shutdownPc = "running"
  /\ shutdownPc' = "closing_server"
  /\ UNCHANGED <<coreVars, wsVars, rtVars, logList, logResult, incCalls>>

FastifyClosed ==
  /\ shutdownPc = "closing_server"
  /\ shutdownPc' = "closing_database"
  /\ UNCHANGED <<coreVars, wsVars, rtVars, logList, logResult, incCalls>>

CloseDatabaseConnection ==
  /\ shutdownPc = "closing_database"
  /\ shutdownPc' = "closing_redis"
  /\ UNCHANGED <<coreVars, wsVars, rtVars, logList, logResult, incCalls>>

CloseRedisConnection ==
  /\ shutdownPc = "closing_redis"
  /\ shutdownPc' = "exited"
  /\ UNCHANGED <<coreVars, wsVars, rtVars, logList, logResult, incCalls>>

(* The Store's pool is usable until closeDatabaseConnection has resolved   *)
StoreOpen == shutdownPc \in {"running", "closing_server", "closing_database"}

(* The worker on one processed order while the server shuts down: the      *)
(* worker's steps are followed as long as the Store is open.               *)
NextShutdown ==
  \/ GracefulShutdown
  \/ FastifyClosed
  \/ CloseDatabaseConnection
  \/ CloseRedisConnection
  \/ StoreOpen /\ \E i \in JobIds : Lease(i)
  \/ StoreOpen /\ \E i \in JobIds : UpdateStatusDb(i)
  \/ StoreOpen /\ \E i \in JobIds : BroadcastStatus(i)
  \/ StoreOpen /\ \E i \in JobIds : Route(i)
  \/ StoreOpen /\ \E i \in JobIds : ExecuteSwap(i)
  \/ StoreOpen /\ \E i \in JobIds : RecordExecution(i)
  \/ StoreOpen /\ \E i \in JobIds : Catch(i)

ShutdownSpec == InitHub /\ [][NextShutdown]_vars

(* Submit on request bodies at the edges of the accepted ranges: amounts   *)
(* zero, one, a million and a million and one; slippages one step outside  *)
(* and on each end of [MinSlippageBps, MaxSlippageBps].  The orders are    *)
(* followed up to the swap step.                                           *)
LimitRequests ==
  {[Request(NATIVE_SOL_ADDRESS, USDC_ADDRESS, a) EXCEPT !.slippage = sl] :
     a \in {0, 1, 1000000, 1000001},
     sl \in {MinSlippageBps - 1, MinSlippageBps, MaxSlippageBps, MaxSlippageBps + 1}}

NextSubmit ==
  \/ \E req \in LimitRequests : Submit(req)
  \/ \E id \in DOMAIN orders : EnqueueStoreId(id)
  \/ \E i \in JobIds : Lease(i)
  \/ \E i \in JobIds : UpdateStatusDb(i)
  \/ \E i \in JobIds : BroadcastStatus(i)
  \/ \E i \in JobIds : Route(i)
  \/ \E i \in JobIds : Catch(i)

SubmitSpec == Init /\ [][NextSubmit]_vars

-----------------------------------------------------------------------------
(* Properties *)

(* The jobs whose id is a Store row id: the ones processOrder runs the     *)
(* state machine for.                                                      *)
ProcessedJobs == {i \in JobIds : isValidUUID(jobs[i].orderId)}

Accepted == {k \in 1..Len(responses) : responses[k].code = 200}

(* The transition graph: Pending -> Routing -> Building -> Submitted ->    *)
(* Confirmed, and Failed from Routing or Submitted.                        *)
StatusEdges ==
  {<<PENDING, ROUTING>>, <<ROUTING, BUILDING>>, <<BUILDING, SUBMITTED>>,
   <<SUBMITTED, CONFIRMED>>, <<ROUTING, FAILED>>, <<SUBMITTED, FAILED>>}

(* C1: status monotonicity.  Every change of an order's persisted status,  *)
(* over its whole life and across retried attempts, follows an edge of the *)
(* transition graph; no status is followed by an earlier one.              *)
C1_StatusMonotonic ==
  [][\A o \in DOMAIN orders :
       orders'[o].status # orders[o].status
         => <<orders[o].status, orders'[o].status>> \in StatusEdges]_vars

(* C2: terminal stability.  Once an order's persisted status is Confirmed  *)
(* or Failed, no later write changes its status, amountOut or              *)
(* executedPrice, even when a step after the terminal write fails.         *)
C2_TerminalStable ==
  [][\A o \in DOMAIN orders :
       orders[o].status \in {CONFIRMED, FAILED}
         => /\ orders'[o].status = orders[o].status
            /\ orders'[o].amountOut = orders[o].amountOut
            /\ orders'[o].executedPrice = orders[o].executedPrice]_vars

(* C3: every order accepted by Submit is leased and actually processed,    *)
(* not skipped.  The safety half of the claim: the job of an accepted      *)
(* order never completes as skipped.                                       *)
C3_AcceptedNotSkipped ==
  \A k \in Accepted : \A i \in JobIds :
    jobs[i].orderId = responses[k].orderId => jobs[i].returnvalue # "skipped"

(* C4: single identity.  The orderId returned by Submit is the id of the   *)
(* order's row in the Store and the id carried by the enqueued job.        *)
C4_SingleIdentity ==
  \A k \in Accepted :
    /\ responses[k].orderId \in DOMAIN orders
    /\ \E i \in JobIds : jobs[i].orderId = responses[k].orderId

InTolerance(expectedPrice, executedPrice, slippageBps) ==
  (IF expectedPrice < executedPrice THEN executedPrice - expectedPrice
   ELSE expectedPrice - executedPrice) * 10000 <= slippageBps * expectedPrice

(* C6: slippage gate.  Every order whose persisted status is Confirmed has *)
(* |expectedPrice - executedPrice| / expectedPrice <= slippage, and a swap *)
(* result outside the tolerance is never carried on to the Store.          *)
C6_SlippageGate ==
  /\ \A o \in DOMAIN orders :
       orders[o].status = CONFIRMED
         => InTolerance(gateExpected[o], orders[o].executedPrice, orders[o].slippage)
  /\ \A i \in ProcessedJobs :
       jobs[i].state = "active" /\ jobs[i].pc \in {"exec_db", "confirmed_db", "confirmed_ws"}
         => InTolerance(jobs[i].quote.price, jobs[i].result.executedPrice, jobs[i].data.slippage)

(* An order is Confirmed with an executed price below the quoted one. *)
C6_Witness ==
  \E o \in DOMAIN orders :
    /\ orders[o].status = CONFIRMED
    /\ orders[o].executedPrice < gateExpected[o]

SameAsset(tokenIn, tokenOut) ==
  \/ tokenIn = tokenOut
  \/ {tokenIn, tokenOut} = {NATIVE_SOL_ADDRESS, WRAPPED_SOL_ADDRESS}

(* C7: Submit of a degenerate pair (the same token twice, or native SOL    *)
(* against wrapped SOL) is rejected by validation: it is not accepted with *)
(* a 200, no row is created and no job is enqueued for it.                 *)
C7_DegenerateRejected ==
  /\ \A k \in 1..Len(responses) :
       SameAsset(responses[k].request.tokenIn, responses[k].request.tokenOut)
         => responses[k].code # 200 /\ responses[k].rowId = NoId
  /\ \A o \in DOMAIN orders : ~SameAsset(orders[o].tokenIn, orders[o].tokenOut)
  /\ \A i \in JobIds : ~SameAsset(jobs[i].data.tokenIn, jobs[i].data.tokenOut)

(* C8: validateTokenAddresses(a, b) reports invalid if and only if         *)
(* normalize(a) = normalize(b) or a = b, where normalize maps the native   *)
(* SOL sentinel to the wrapped SOL address and is the identity otherwise.  *)
C8_ValidateIffSameAsset ==
  wsResult.op = "validateTokenAddresses"
    => (~wsResult.value.isValid
          <=> \/ (IF wsIn = NATIVE_SOL_ADDRESS THEN WRAPPED_SOL_ADDRESS ELSE wsIn)
                   = (IF wsOut = NATIVE_SOL_ADDRESS THEN WRAPPED_SOL_ADDRESS ELSE wsOut)
              \/ wsIn = wsOut)

(* Native SOL against wrapped SOL was validated and reported invalid. *)
C8_Witness ==
  /\ wsResult.op = "validateTokenAddresses"
  /\ wsIn = NATIVE_SOL_ADDRESS /\ wsOut = WRAPPED_SOL_ADDRESS
  /\ ~wsResult.value.isValid

(* The sinks a broadcast for the order reaches: registered and OPEN *)
Receivers(orderId) ==
  IF orderId \in DOMAIN connections
  THEN {s \in connections[orderId] : sockets[s].readyState = "open"}
  ELSE {}

(* C9: the Store write commits before the broadcast.  Whenever the worker  *)
(* delivers a status_update with status s for order o to a subscriber, the *)
(* Store already holds a row o whose status is s.                          *)
C9_WriteBeforeBroadcast ==
  [][\A i \in JobIds :
       BroadcastStatus(i) /\ Receivers(jobs[i].orderId) # {}
         => /\ jobs[i].orderId \in DOMAIN orders
            /\ orders[jobs[i].orderId].status = StatusOfPc(jobs[i].pc)]_vars

(* A subscriber holds the Routing update and the Store says Routing. *)
C9_Witness ==
  \E s \in Sinks :
    /\ sockets[s].readyState = "open"
    /\ Len(inbox[s]) = 2
    /\ inbox[s][2] = StatusMsg(sockets[s].orderId, ROUTING)
    /\ orders[sockets[s].orderId].status = ROUTING

(* The sinks that subscribed to the order before its processing began and  *)
(* are still connected.                                                    *)
EarlySinks(orderId) == {s \in Receivers(orderId) : sockets[s].beforeProcessing}

FirstAttemptMessages(orderId) ==
  <<ConnectedMsg(orderId), StatusMsg(orderId, ROUTING), StatusMsg(orderId, BUILDING),
    StatusMsg(orderId, SUBMITTED), StatusMsg(orderId, CONFIRMED)>>

-----------------------------------------------------------------------------
(* Properties of the hub and the router *)

(* C11: when the processor has pushed an order's terminal status it closes *)
(* the order's subscriptions.  The safety half: once the order's job has   *)
(* completed and a sink has received the whole sequence up to the terminal *)
(* status_update, the hub no longer holds a sink for the order.            *)
C11_ClosedOnTerminal ==
  \A i \in JobIds : \A s \in Sinks :
    (/\ jobs[i].state = "completed"
     /\ sockets[s].orderId = jobs[i].orderId
     /\ inbox[s] = FirstAttemptMessages(jobs[i].orderId))
      => jobs[i].orderId \notin DOMAIN connections

(* The sinks the registry holds, over all orders *)
RegisteredSinks == {s \in Sinks : \E o \in DOMAIN connections : s \in connections[o]}

(* C12: count consistency.  After any sequence of registrations, close and *)
(* error events, broadcasts, closeOrderConnections and closeAll, the total *)
(* the hub reports equals the number of sinks in its registry and is never *)
(* negative (so it is 0 once closeAll has emptied the registry).  Stated   *)
(* for the states in which no socket has a 'close' event still to deliver  *)
(* and no socket's send throws.                                            *)
C12_CountMatchesRegistry ==
  (\A s \in Sinks : ~sockets[s].closeEvent /\ ~sockets[s].sendThrows)
    => /\ connectionCount = Cardinality(RegisteredSinks)
       /\ connectionCount >= 0

C14_IllegalTransitionRejected ==
  [][\A i \in JobIds :
       (/\ UpdateStatusDb(i)
        /\ jobs[i].orderId \in DOMAIN orders
        /\ <<orders[jobs[i].orderId].status, StatusOfPc(jobs[i].pc)>> \notin StatusEdges)
         => orders'[jobs[i].orderId] = orders[jobs[i].orderId]]_vars

C16_FailedSinksRemoved ==
  [][\A o \in KnownIds : \A st \in BroadcastStatuses :
       BroadcastStatusUpdate(o, st)
         => \A s \in Sinks :
              (/\ o \in DOMAIN connections
               /\ s \in connections[o]
               /\ (sockets[s].readyState # "open" \/ sockets[s].sendThrows))
                => ~(o \in DOMAIN connections' /\ s \in connections'[o])]_vars

(* C17: closeOrderConnections hands Closing to each sink registered for    *)
(* the order, closes each of them and removes the order's entry, so that   *)
(* the order's connection count is 0 afterwards.  Stated for the sinks     *)
(* that are Open when it is called; Closing can only be handed to a sink   *)
(* whose send returns.                                                     *)
C17_CloseOrderClosesAll ==
  [][\A o \in KnownIds :
       (CloseOrderConnections(o) /\ o \in DOMAIN connections)
         => /\ \A s \in connections[o] :
                 sockets[s].readyState = "open"
                   => /\ sockets'[s].readyState # "open"
                      /\ ~sockets[s].sendThrows => delivered'[s] = <<ClosingMsg(o)>>
            /\ o \notin DOMAIN connections']_vars

(* C18: registerConnection adds the sink to the order's set, raising the   *)
(* order's count and the total by one, and at once hands the sink the      *)
(* Connected message: the first message of a sink, before any              *)
(* status_update.                                                          *)
C18_RegisterSendsConnected ==
  [][\A s \in Sinks : \A o \in KnownIds :
       RegisterConnection(s, o)
         => /\ o \in DOMAIN connections'
            /\ s \in connections'[o]
            /\ Cardinality(connections'[o]) =
                 (IF o \in DOMAIN connections THEN Cardinality(connections[o]) ELSE 0) + 1
            /\ connectionCount' = connectionCount + 1
            /\ inbox[s] = << >>
            /\ inbox'[s] = <<ConnectedMsg(o)>>
            /\ delivered'[s] = <<ConnectedMsg(o)>>]_vars

(* a second sink has just registered for an order and was handed Connected *)
C18_Witness ==
  \E s \in Sinks :
    /\ sockets[s].readyState = "open"
    /\ delivered[s] = <<ConnectedMsg(sockets[s].orderId)>>
    /\ sockets[s].orderId \in DOMAIN connections
    /\ Cardinality(connections[sockets[s].orderId]) = 2
    /\ connectionCount = 2

(* The routing decision of the last router call *)
LastDecision ==
  IF rtResult.op = "getBestQuote" THEN rtResult.value.decision ELSE rtResult.value

C20_TieBreak ==
  (/\ rtResult.op # None
   /\ rtRaydium.amountOut * (BpsScale - rtRaydium.priceImpact)
        = rtMeteora.amountOut * (BpsScale - rtMeteora.priceImpact))
    => LastDecision.selectedProvider =
         (CASE rtRaydium.fee # rtMeteora.fee ->
                 IF rtRaydium.fee < rtMeteora.fee THEN RAYDIUM ELSE METEORA
            [] rtRaydium.fee = rtMeteora.fee /\ rtRaydium.priceImpact # rtMeteora.priceImpact ->
                 IF rtRaydium.priceImpact < rtMeteora.priceImpact THEN RAYDIUM ELSE METEORA
            [] OTHER -> RAYDIUM)

-----------------------------------------------------------------------------
(* Properties of routing, the cache and the failure handling *)

(* C21: routing reports that no quote is available only when every driver *)
(* failed: when at least one driver returned a quote, the decision is made *)
(* over the quotes that succeeded.                                         *)
C21_NoQuotesOnlyIfAllFail ==
  (rtResult.op = "getRoutingDecision" /\ rtResult.value.error # None)
    => (rtRaydium = QuoteRejected /\ rtMeteora = QuoteRejected)

C25_SlippageFailureMentionsSlippage ==
  \A i \in JobIds :
    (jobs[i].pc = "failed_db" /\ jobs[i].cause = SlippageError)
      => /\ orders[jobs[i].orderId].status = FAILED
         /\ orders[jobs[i].orderId].errorMessage = SlippageError

(* C26: when the queue reports the job of an order failed and the order   *)
(* is Failed in the Store, the Failed update has been published before.    *)
C26_FailedBeforeJobFails ==
  \A i \in JobIds :
    (jobs[i].state = "failed" /\ orders[jobs[i].orderId].status = FAILED)
      => /\ jobs[i].orderId \in DOMAIN updateLog
         /\ updateLog[jobs[i].orderId] = FAILED

(* C27: retryCount counts the attempts that did not finish in Confirmed:   *)
(* it is not incremented on an attempt that has confirmed the order.       *)
C27_NoIncrementOnConfirmed ==
  [][\A id \in DOMAIN orders :
       orders[id].status = CONFIRMED => orders'[id].retryCount = orders[id].retryCount]_vars

(* C28: an attempt that ends with a permanent venue error makes the order  *)
(* Failed at once, whatever attempts remain, and the job is not retried.   *)
C28_PermanentFailsAtOnce ==
  [][\A i \in JobIds :
       (/\ Catch(i)
        /\ jobs[i].cause = "venue permanent failure"
        /\ orders'[jobs[i].orderId].retryCount = orders[jobs[i].orderId].retryCount + 1)
         => /\ orders'[jobs[i].orderId].status = FAILED
            /\ jobs'[i].state # "waiting"]_vars

(* C29: a step of a job whose orderId is not a UUID is the skip: the job   *)
(* completes with the skip result and no attempt consumed, and the Store,  *)
(* the cache, the update log and the hub are unchanged, nothing is sent.   *)
C29_SkipChangesNothing ==
  [][\A i \in JobIds :
       (jobs[i].orderId.prefix # "" /\ jobs'[i] # jobs[i])
         => /\ jobs'[i].state = "completed"
            /\ jobs'[i].returnvalue = "skipped"
            /\ jobs'[i].attemptsMade = jobs[i].attemptsMade
            /\ UNCHANGED <<orders, cache, updatedAt, updateLog, connections,
                           connectionCount, sockets, inbox, gateExpected>>
            /\ delivered' = NoDelivery]_vars

C29_Witness ==
  \E i \in JobIds :
    /\ jobs[i].orderId.prefix # ""
    /\ jobs[i].state = "completed"
    /\ jobs[i].returnvalue = "skipped"
    /\ jobs[i].attemptsMade = 0
    /\ \E id \in DOMAIN orders : orders[id].status = PENDING /\ orders[id].retryCount = 0

(* C30: a Confirmed order has a venue and a transaction reference, and a   *)
(* Failed order has neither.                                               *)
C30_LifecycleCompleteness ==
  \A id \in DOMAIN orders :
    /\ orders[id].status = CONFIRMED
         => (orders[id].dexProvider # None /\ orders[id].txHash # 0)
    /\ orders[id].status = FAILED
         => (orders[id].dexProvider = None /\ orders[id].txHash = 0)

-----------------------------------------------------------------------------
(* Properties of the recorded venue, the update log and the lifecycle *)

(* C31: once the Building transition of an attempt is persisted, and while *)
(* the order is Building or Submitted, the venue in the order's row is the *)
(* venue the router selected in that attempt.                              *)
C31_VenueRecordedAtBuilding ==
  \A i \in JobIds :
    (/\ jobs[i].state = "active"
     /\ jobs[i].pc \in {"building_ws", "submitted_db", "submitted_ws", "swap"}
     /\ orders[jobs[i].orderId].status \in {BUILDING, SUBMITTED})
      => orders[jobs[i].orderId].dexProvider = jobs[i].quote.provider

(* C32: the update log of an order holds at most 50 entries.              *)
C32_UpdateLogBounded == Len(logList) <= 50

(* C33: the first element getStatusUpdates returns is the update logged    *)
(* last: no element of the result is newer than the first.                 *)
C33_NewestFirst ==
  (logResult.op = "getStatusUpdates" /\ logResult.value # << >>)
    => \A k \in 1..Len(logResult.value) : logResult.value[k] <= logResult.value[1]

(* the incrementRetry calls that have returned *)
RECURSIVE DoneUpTo(_)
DoneUpTo(c) == IF c = 0 THEN 0 ELSE incCalls[c].done + DoneUpTo(c - 1)

(* C34: when no incrementRetry call is under way and the order was not    *)
(* marked failed, its retryCount is the number of incrementRetry calls     *)
(* made: interleaved calls lose no increment.                              *)
C34_IncrementsNotLost ==
  \A id \in DOMAIN orders :
    (orders[id].status # FAILED /\ \A c \in Callers : incCalls[c].pc = "idle")
      => orders[id].retryCount = DoneUpTo(MaxCallers)

(* C35: an order whose worker was killed while the order was Submitted,   *)
(* and whose job was leased again and ran to Confirmed, has retryCount of  *)
(* at least 1.                                                             *)
C35_CrashCountsAsRetry ==
  \A i \in JobIds :
    (/\ jobs[i].crashedIn = SUBMITTED
     /\ jobs[i].state = "completed"
     /\ orders[jobs[i].orderId].status = CONFIRMED)
      => orders[jobs[i].orderId].retryCount >= 1

(* C36: the Store's connection is closed only after the workers have       *)
(* finished their attempt: once closeDatabaseConnection has resolved, no   *)
(* job is in the middle of an attempt.                                     *)
C36_StoreClosedAfterWorkers ==
  shutdownPc \in {"closing_redis", "exited"}
    => \A i \in JobIds : jobs[i].state # "active"

(* C37: every persisted order has an amountIn in (0, 1_000_000] and a      *)
(* slippage in [0.0001, 0.5]: Submit creates no order for a request        *)
(* outside either range.  Stated for the orders Submit accepted.           *)
C37_PersistedWithinBounds ==
  \A id \in DOMAIN orders :
    (\E k \in Accepted : responses[k].rowId = id) =>
    /\ orders[id].amountIn > 0
    /\ orders[id].amountIn <= 1000000
    /\ orders[id].slippage >= MinSlippageBps
    /\ orders[id].slippage <= MaxSlippageBps

(* The sinks in the registry under an order other than orderId *)
RegisteredElsewhere(orderId) ==
  {s \in Sinks : \E b \in DOMAIN connections \ {orderId} : s \in connections[b]}

(* C38: broadcastStatusUpdate and closeOrderConnections for an order send  *)
(* nothing to a sink registered for another order, do not close it, do not *)
(* remove it, and leave the other order's set of sinks as it was.          *)
C38_HubIsolation ==
  [][\A a \in KnownIds :
       (\/ \E status \in BroadcastStatuses : BroadcastStatusUpdate(a, status)
        \/ CloseOrderConnections(a))
         => /\ \A s \in RegisteredElsewhere(a) :
                 /\ delivered'[s] = << >>
                 /\ inbox'[s] = inbox[s]
                 /\ sockets'[s] = sockets[s]
            /\ \A b \in DOMAIN connections \ {a} :
                 /\ b \in DOMAIN connections'
                 /\ connections'[b] = connections[b]]_vars

(* A broadcast or a close for one order has just reached its open sink     *)
(* while an open sink is registered for another order.                     *)
C38_Witness ==
  \E s, t \in Sinks :
    /\ sockets[s].orderId # sockets[t].orderId
    /\ delivered[s] # << >>
    /\ delivered[s][1].type \in {"status_update", "closing"}
    /\ delivered[s][1].orderId = sockets[s].orderId
    /\ sockets[t].orderId \in DOMAIN connections
    /\ t \in connections[sockets[t].orderId]
    /\ sockets[t].readyState = "open"
    /\ delivered[t] = << >>

(* C39: when Submit's enqueue step failed after the order's row was        *)
(* created (the caller was answered 500), the row is not left in the       *)
(* Store in Pending without a job of the queue for it.                     *)
C39_NoPendingRowWithoutJob ==
  \A k \in 1..Len(responses) :
    (responses[k].code = 500 /\ responses[k].rowId \in DOMAIN orders)
      => \/ orders[responses[k].rowId].status # PENDING
         \/ \E i \in JobIds : jobs[i].orderId = responses[k].rowId

(* C40: an attempt is not retried after the venue executed the swap: a     *)
(* job whose order has the executed swap's txHash recorded in the Store    *)
(* does not go back to waiting from the catch block.                       *)
C40_NoRetryAfterSwap ==
  [][\A i \in JobIds :
       (/\ jobs[i].state = "active"
        /\ jobs[i].pc = "catch"
        /\ jobs[i].orderId \in DOMAIN orders
        /\ orders[jobs[i].orderId].txHash # 0)
         => jobs'[i].state # "waiting"]_vars

====
